---- MODULE Spec2Model ----
(***************************************************************************)
(* Model of deepseek-assistant.py: the ChatMemory session logs, attachment *)
(* ingestion, and one request/response turn of query_deepseek driven by    *)
(* main_interface.                                                         *)
(*                                                                         *)
(* Text is a TLA+ string; a Python dict is a function whose DOMAIN is its  *)
(* key set; a Python list is a sequence.  The empty dict, written          *)
(* EmptyDict, and the empty list are the same TLA+ value; every JSON body  *)
(* the model enumerates is listed in Responses with the Python value that  *)
(* it stands for.                                                          *)
(***************************************************************************)
EXTENDS Integers, Sequences, FiniteSets, TLC

VARIABLES
    session_state,  \* st.session_state: dict holding "messages" (display log)
                    \* and "full_history" (context log)
    max_messages,   \* ChatMemory.max_messages
    pc,             \* "idle", or "waiting" while requests.post is in flight
    request,        \* arguments and payload of the query_deepseek call in flight
    op,             \* the operation that produced the current state; a resolved
                    \* turn records the prompt, the system prompt and the messages sent
    ret,            \* what that operation returned (or raised)
    response,       \* what requests.post did, when that operation is a resolved turn
    ui,             \* the st.markdown / st.error / st.warning calls of that operation
    before          \* session_state when that operation was called

vars == <<session_state, max_messages, pc, request, response, op, ret, ui, before>>

messages == session_state["messages"]
full_history == session_state["full_history"]

-----------------------------------------------------------------------------
(* Bounds of the model *)

MaxDisplay == 4        \* appends are offered while the display log is shorter
MaxMaxMessages == 2    \* max_messages is drawn from 0..MaxMaxMessages and the default
MaxFiles == 3          \* process_uploaded_files is given at most this many files

(* Program constants *)

MAX_CONTEXT_MESSAGES == 8
MAX_FILE_CONTENT == 1000

-----------------------------------------------------------------------------
(* Python values *)

EmptyDict == [k \in {} |-> ""]

None == [kind |-> "None"]
Value(v) == [kind |-> "value", value |-> v]
Raise(e) == [kind |-> "raise", exc |-> e]

\* dict.get(key, default)
Get(d, key, default) == IF key \in DOMAIN d THEN d[key] ELSE default

\* Variant: the slice keeps one character more
Prefix_OneMore(s, n) == SubSeq(s, 1, IF Len(s) < n + 1 THEN Len(s) ELSE n + 1)

\* s[:n] for n >= 0
Prefix(s, n) == SubSeq(s, 1, IF Len(s) < n THEN Len(s) ELSE n)

\* s[-n:]; -0 is 0, so s[-0:] is the whole of s
SliceLast(s, n) ==
    IF n = 0 THEN s
    ELSE IF n > 0 THEN SubSeq(s, (IF Len(s) > n THEN Len(s) - n ELSE 0) + 1, Len(s))
    ELSE SubSeq(s, (IF Len(s) > -n THEN -n ELSE Len(s)) + 1, Len(s))

Message(role, content) == [role |-> role, content |-> content]

-----------------------------------------------------------------------------
(* ChatMemory *)

\* Variant: the logs are set to empty lists on every construction
initialize_session_AlwaysResets(ss) ==
    ("messages" :> <<>>) @@ ("full_history" :> <<>>) @@ ss

initialize_session(ss) ==
    IF "messages" \notin DOMAIN ss
    THEN ("messages" :> <<>>) @@ ("full_history" :> <<>>) @@ ss
    ELSE ss

RECURSIVE TrimFront_OffByOne(_, _)
\* Variant: the loop condition is len(full_history) > max_messages + 1
TrimFront_OffByOne(history, max) ==
    IF Len(history) > max + 1 /\ Len(history) > 0
    THEN TrimFront_OffByOne(Tail(history), max)
    ELSE history

RECURSIVE TrimFront_PopLast(_, _)
\* Variant: the loop calls full_history.pop() and drops the newest entry
TrimFront_PopLast(history, max) ==
    IF Len(history) > max /\ Len(history) > 0
    THEN TrimFront_PopLast(SubSeq(history, 1, Len(history) - 1), max)
    ELSE history

RECURSIVE TrimFront_KeepsNewest(_, _)
\* Variant: the loop never empties the list, it stops at the newest entry
TrimFront_KeepsNewest(history, max) ==
    IF Len(history) > max /\ Len(history) > 1
    THEN TrimFront_KeepsNewest(Tail(history), max)
    ELSE history

RECURSIVE TrimFront(_, _)
\* while len(full_history) > max_messages: full_history.pop(0)
TrimFront(history, max) ==
    IF Len(history) > max /\ Len(history) > 0
    THEN TrimFront(Tail(history), max)
    ELSE history

\* Variant: one list serves as display log and context log, so both are trimmed
add_message_TrimsDisplay(ss, max, role, content) ==
    [ss EXCEPT !["messages"] = TrimFront(Append(@, Message(role, content)), max),
               !["full_history"] = TrimFront(Append(@, Message(role, content)), max)]

add_message(ss, max, role, content) ==
    [ss EXCEPT !["messages"] = Append(@, Message(role, content)),
               !["full_history"] = TrimFront(Append(@, Message(role, content)), max)]

\* Variant: the slice is taken from the display log
get_context_FromDisplay(ss, max, system_prompt) ==
    <<Message("system", system_prompt)>> \o SliceLast(ss["messages"], max)

get_context(ss, max, system_prompt) ==
    <<Message("system", system_prompt)>> \o SliceLast(ss["full_history"], max)

\* Variant: only the display log is reset
clear_memory_DisplayOnly(ss) ==
    [ss EXCEPT !["messages"] = <<>>]

clear_memory(ss) ==
    [ss EXCEPT !["messages"] = <<>>, !["full_history"] = <<>>]

-----------------------------------------------------------------------------
(* process_uploaded_files *)

\* An uploaded file: its declared type and name, whether opening it succeeds
\* (PyPDF2.PdfReader(file) / file.read()), the pages of a PDF (each page's
\* extract_text() returns text, returns None, or raises), the bytes of a plain
\* file (runs of valid UTF-8 text, and BadByte for a byte that is not valid UTF-8).
File(type, name, opens, pages, bytes) ==
    [type |-> type, name |-> name, opens |-> opens, pages |-> pages, bytes |-> bytes]

Page(extract, text) == [extract |-> extract, text |-> text]

BadByte == "\\xff"
ReplacementChar == "?"

RECURSIVE Decode(_)
\* bytes.decode("utf-8", errors="replace")
Decode(bytes) ==
    IF bytes = <<>> THEN ""
    ELSE (IF Head(bytes) = BadByte THEN ReplacementChar ELSE Head(bytes))
         \o Decode(Tail(bytes))

RECURSIVE Join(_, _)
\* sep.join(parts)
Join(sep, parts) ==
    IF parts = <<>> THEN ""
    ELSE IF Len(parts) = 1 THEN parts[1]
    ELSE parts[1] \o sep \o Join(sep, Tail(parts))

\* page.extract_text() or ""
PageText(page) == IF page.extract = "text" THEN page.text ELSE ""

\* The body of the try block for one file: the snippet, or the exception raised.
ProcessFile(file) ==
    IF ~file.opens THEN Raise("Exception")
    ELSE IF file.type = "application/pdf"
    THEN IF \E i \in 1..Len(file.pages) : file.pages[i].extract = "raise"
         THEN Raise("Exception")
         ELSE Value("PDF_CONTENT:" \o file.name \o ": "
                    \o Prefix(Join(" ", [i \in 1..Len(file.pages) |-> PageText(file.pages[i])]),
                              MAX_FILE_CONTENT)
                    \o "...")
    ELSE Value("FILE_CONTENT:" \o file.name \o ": "
               \o Prefix(Decode(file.bytes), MAX_FILE_CONTENT) \o "...")

RECURSIVE ProcessedContent_StopsAtFailure(_)
\* Variant: one try block around the whole loop, so the first failing file
\* ends the loop
ProcessedContent_StopsAtFailure(files) ==
    IF files = <<>> THEN <<>>
    ELSE LET r == ProcessFile(Head(files))
         IN  IF r.kind = "value"
             THEN <<r.value>> \o ProcessedContent_StopsAtFailure(Tail(files))
             ELSE <<>>

RECURSIVE ProcessedContent(_)
\* the list processed_content after the loop
ProcessedContent(files) ==
    IF files = <<>> THEN <<>>
    ELSE LET r == ProcessFile(Head(files))
         IN  (IF r.kind = "value" THEN <<r.value>> ELSE <<>>)
             \o ProcessedContent(Tail(files))

RECURSIVE Warnings(_)
\* the st.warning calls of the loop
Warnings(files) ==
    IF files = <<>> THEN <<>>
    ELSE (IF ProcessFile(Head(files)).kind = "raise"
          THEN <<"st.warning:Error processing " \o Head(files).name>> ELSE <<>>)
         \o Warnings(Tail(files))

process_uploaded_files(files) == Join("\n", ProcessedContent(files))

-----------------------------------------------------------------------------
(* query_deepseek *)

\* What requests.post did: raised a RequestException (transport names it), or
\* returned a response with a status and a body that response.json() parses
\* (json_ok) to data.
Response(transport, status, json_ok, data) ==
    [kind |-> "response", transport |-> transport, status |-> status,
     json_ok |-> json_ok, data |-> data]

\* response_data.get("choices", [{}])[0].get("message", {}).get("content", "")
ExtractContent(response_data) ==
    LET choices == Get(response_data, "choices", <<EmptyDict>>)
    IN  IF Len(choices) = 0 THEN Raise("IndexError")
        ELSE Value(Get(Get(choices[1], "message", EmptyDict), "content", ""))

\* lines 84-88: the request payload
BuildPayload(ss, max, prompt, system_prompt, model, temperature) ==
    [model |-> model,
     messages |-> get_context(ss, max, system_prompt) \o <<Message("user", prompt)>>,
     temperature |-> temperature]

\* Variant: the except branch re-raises
RequestFailed_Reraises(ss) ==
    [session_state |-> ss, ret |-> Raise("RequestException"),
     ui |-> <<"st.error:API Error">>]

\* The except branch for requests.exceptions.RequestException.
RequestFailed(ss) ==
    [session_state |-> ss, ret |-> None, ui |-> <<"st.error:API Error">>]

\* Variant: the assistant turn is appended before the user turn
CommitTurn_AssistantFirst(ss, max, prompt, assistant_response, response_data) ==
    [session_state |-> add_message(add_message(ss, max, "assistant", assistant_response),
                                   max, "user", prompt),
     ret |-> Value(response_data), ui |-> <<>>]

\* Variant: the assistant message is added only when the content is non-empty
CommitTurn_SkipsEmptyAssistant(ss, max, prompt, assistant_response, response_data) ==
    [session_state |-> IF assistant_response = ""
                       THEN add_message(ss, max, "user", prompt)
                       ELSE add_message(add_message(ss, max, "user", prompt),
                                        max, "assistant", assistant_response),
     ret |-> Value(response_data), ui |-> <<>>]

\* lines 100-103: commit the turn and return the parsed body
CommitTurn(ss, max, prompt, assistant_response, response_data) ==
    [session_state |-> add_message(add_message(ss, max, "user", prompt),
                                   max, "assistant", assistant_response),
     ret |-> Value(response_data), ui |-> <<>>]

\* lines 93-111: query_deepseek from the return of requests.post on.
\* json_error_caught: whether the installed requests raises a JSON decoding
\* error that is a RequestException (requests >= 2.27) or a plain ValueError.
QueryOutcome(ss, max, prompt, resp, json_error_caught) ==
    IF resp.transport # "ok" THEN RequestFailed(ss)
    ELSE IF resp.status >= 400 /\ resp.status < 600 THEN RequestFailed(ss)
    ELSE IF resp.status = 200
    THEN IF ~resp.json_ok
         THEN IF json_error_caught THEN RequestFailed(ss)
              ELSE [session_state |-> ss, ret |-> Raise("JSONDecodeError"), ui |-> <<>>]
         ELSE LET c == ExtractContent(resp.data)
              IN  IF c.kind = "raise"
                  THEN [session_state |-> ss, ret |-> c, ui |-> <<>>]
                  ELSE CommitTurn(ss, max, prompt, c.value, resp.data)
    ELSE [session_state |-> ss, ret |-> None, ui |-> <<>>]

-----------------------------------------------------------------------------
(* main_interface *)

\* Python truthiness of query_deepseek's return value (None or a dict)
Truthy(r) == r.kind = "value" /\ DOMAIN r.value # {}

\* lines 180-189: what main_interface shows for the outcome of query_deepseek
Render(r) ==
    IF r.kind = "raise" THEN <<"st.error:Communication error">>
    ELSE IF Truthy(r)
    THEN LET c == ExtractContent(r.value)
         IN  IF c.kind = "raise" THEN <<"st.error:Communication error">>
             ELSE IF c.value # "" THEN <<"st.markdown:Assistant: " \o c.value>>
             ELSE <<"st.error:Failed to get valid response from API">>
    ELSE <<>>

\* Variant: main_interface catches requests.exceptions.RequestException only
MainCatches_RequestExceptionOnly(exc) == exc = "RequestException"

\* line 187: except Exception catches whatever query_deepseek raises
MainCatches(exc) == exc \in {"RequestException", "IndexError", "JSONDecodeError", "Exception"}

\* Variant: the newline and the attachment text are appended unconditionally
FullPrompt_AlwaysJoins(user_input, file_context) ==
    user_input \o "\n" \o file_context

\* line 164
FullPrompt(user_input, file_context) ==
    IF file_context # "" THEN user_input \o "\n" \o file_context ELSE user_input

\* line 163
FileContext(uploaded_files) ==
    IF uploaded_files # <<>> THEN process_uploaded_files(uploaded_files) ELSE ""

-----------------------------------------------------------------------------
(* Inputs *)

Roles == {"system", "user", "assistant"}
Contents == {"q"}
UserInputs == {"q"}
SystemPrompts == {"expert", "terse"}
Models == {"deepseek-chat", "deepseek-reasoner"}
Temperatures == {0, 70, 100}    \* the slider's value, in hundredths

\* the temperature argument of query_deepseek is any float: in hundredths
QueryTemperatures == {-50, 0, 70, 100, 150}

\* no upload; one readable plain file; one PDF that PyPDF2 cannot open
FileLists ==
    << <<>>,
       <<File("text/plain", "a.txt", TRUE, <<>>, <<"h", "i">>)>>,
       <<File("application/pdf", "b.pdf", FALSE, <<>>, <<>>)>> >>

\* Text of 10, 100 and 1000 characters.
X10 == "xxxxxxxxxx"
X100 == X10 \o X10 \o X10 \o X10 \o X10 \o X10 \o X10 \o X10 \o X10 \o X10
X1000 == X100 \o X100 \o X100 \o X100 \o X100 \o X100 \o X100 \o X100 \o X100 \o X100

\* The files process_uploaded_files is tried on: plain files (short, with an
\* undecodable byte, unreadable, of exactly MAX_FILE_CONTENT characters, longer)
\* and PDFs (with a page without text, with a page whose extraction raises,
\* one that PyPDF2 cannot open).
FileUniverse ==
    { File("text/plain", "a.txt", TRUE, <<>>, <<"hello">>),
      File("text/plain", "u.txt", TRUE, <<>>, <<"h", BadByte, "i">>),
      File("text/plain", "c.txt", FALSE, <<>>, <<>>),
      File("text/plain", "k.txt", TRUE, <<>>, <<X1000>>),
      File("text/plain", "l.txt", TRUE, <<>>, <<X1000, "yz">>),
      File("application/pdf", "d.pdf", TRUE,
           <<Page("text", "ab"), Page("none", ""), Page("text", "cd")>>, <<>>),
      File("application/pdf", "e.pdf", TRUE,
           <<Page("text", "ab"), Page("raise", "")>>, <<>>),
      File("application/pdf", "b.pdf", FALSE, <<>>, <<>>) }

FileSequences == UNION {[1..n -> FileUniverse] : n \in 0..MaxFiles}

\* {} ; {"choices": []} ; {"choices": [{}]} ; {"choices": [{"message": {}}]} ;
\* {"choices": [{"message": {"content": ""}}]} ;
\* {"choices": [{"message": {"content": "Hi"}}]}
Choices(list) == [choices |-> list]
WithMessage(message) == [message |-> message]
WithContent(content) == [content |-> content]

Bodies ==
    << EmptyDict,
       Choices(<<>>),
       Choices(<<EmptyDict>>),
       Choices(<<WithMessage(EmptyDict)>>),
       Choices(<<WithMessage(WithContent(""))>>),
       Choices(<<WithMessage(WithContent("Hi"))>>) >>

Statuses == {200, 201, 204, 304, 404, 500}

NoRequest == [kind |-> "None"]
NoResponse == [kind |-> "None"]

Op(name, args) == [name |-> name, args |-> args]

-----------------------------------------------------------------------------
(* Actions *)

Init ==
    /\ session_state = initialize_session([DEESEEK_API_KEY |-> "key", logged_in |-> TRUE])
    /\ max_messages \in (0..MaxMaxMessages) \cup {MAX_CONTEXT_MESSAGES}
    /\ pc = "idle"
    /\ request = NoRequest
    /\ response = NoResponse
    /\ op = Op("construct", <<>>)
    /\ ret = None
    /\ ui = <<>>
    /\ before = session_state

\* ChatMemory.add_message called on the session's memory
AddMessage(role, content) ==
    /\ pc = "idle"
    /\ Len(messages) < MaxDisplay
    /\ session_state' = add_message(session_state, max_messages, role, content)
    /\ op' = Op("add_message", <<role, content>>)
    /\ ret' = None
    /\ request' = NoRequest
    /\ response' = NoResponse
    /\ ui' = <<>>
    /\ before' = session_state
    /\ UNCHANGED <<max_messages, pc>>

\* Variant: get_context inserts the system message into full_history and
\* returns that list
GetContext_InsertsInPlace(system_prompt) ==
    /\ pc = "idle"
    /\ session_state' = [session_state EXCEPT
                            !["full_history"] = <<Message("system", system_prompt)>> \o @]
    /\ ret' = Value(session_state'["full_history"])
    /\ op' = Op("get_context", <<system_prompt>>)
    /\ request' = NoRequest
    /\ response' = NoResponse
    /\ ui' = <<>>
    /\ before' = session_state
    /\ UNCHANGED <<max_messages, pc>>

\* ChatMemory.get_context called on the session's memory
GetContext(system_prompt) ==
    /\ pc = "idle"
    /\ ret' = Value(get_context(session_state, max_messages, system_prompt))
    /\ op' = Op("get_context", <<system_prompt>>)
    /\ request' = NoRequest
    /\ response' = NoResponse
    /\ ui' = <<>>
    /\ before' = session_state
    /\ UNCHANGED <<session_state, max_messages, pc>>

\* ChatMemory.clear_memory called on the session's memory
ClearMemory ==
    /\ pc = "idle"
    /\ session_state' = clear_memory(session_state)
    /\ op' = Op("clear_memory", <<>>)
    /\ ret' = None
    /\ request' = NoRequest
    /\ response' = NoResponse
    /\ ui' = <<>>
    /\ before' = session_state
    /\ UNCHANGED <<max_messages, pc>>

\* A run of main_interface with no user input: ChatMemory is constructed again
\* over the session's logs and the history is rendered.
Rerun ==
    /\ pc = "idle"
    /\ session_state' = initialize_session(session_state)
    /\ op' = Op("construct", <<>>)
    /\ ret' = None
    /\ request' = NoRequest
    /\ response' = NoResponse
    /\ ui' = <<>>
    /\ before' = session_state
    /\ UNCHANGED <<max_messages, pc>>

\* A run of main_interface with user input, up to the call of requests.post.
Submit(user_input, uploaded_files, system_prompt, model, temperature) ==
    /\ pc = "idle"
    /\ user_input # ""
    /\ Len(messages) + 2 <= MaxDisplay
    /\ LET ss == initialize_session(session_state)
           full_prompt == FullPrompt(user_input, FileContext(uploaded_files))
       IN  /\ session_state' = ss
           /\ request' = [kind |-> "request", prompt |-> full_prompt,
                          system_prompt |-> system_prompt,
                          payload |-> BuildPayload(ss, max_messages, full_prompt,
                                                   system_prompt, model, temperature)]
    /\ pc' = "waiting"
    /\ response' = NoResponse
    /\ op' = Op("submit", <<user_input, uploaded_files>>)
    /\ ret' = None
    /\ ui' = Warnings(uploaded_files)
    /\ before' = session_state
    /\ UNCHANGED max_messages

\* process_uploaded_files called on the uploaded files
Ingest ==
    /\ pc = "idle"
    /\ request.kind = "files"
    /\ op' = Op("process_uploaded_files", <<request.files>>)
    /\ ret' = Value(process_uploaded_files(request.files))
    /\ ui' = Warnings(request.files)
    /\ request' = NoRequest
    /\ response' = NoResponse
    /\ before' = session_state
    /\ UNCHANGED <<session_state, max_messages, pc>>

\* query_deepseek called with a prompt and a temperature of the caller's
\* choosing, up to the call of requests.post.
Query(prompt, system_prompt, model, temperature) ==
    /\ pc = "idle"
    /\ Len(messages) + 2 <= MaxDisplay
    /\ request' = [kind |-> "request", prompt |-> prompt,
                   system_prompt |-> system_prompt,
                   payload |-> BuildPayload(session_state, max_messages, prompt,
                                            system_prompt, model, temperature)]
    /\ pc' = "waiting"
    /\ response' = NoResponse
    /\ op' = Op("query_call", <<prompt, temperature>>)
    /\ ret' = None
    /\ ui' = <<>>
    /\ before' = session_state
    /\ UNCHANGED <<session_state, max_messages>>

\* requests.post returns or raises; query_deepseek and main_interface run to
\* the end of the turn.
Respond(resp, json_error_caught) ==
    /\ pc = "waiting"
    /\ LET out == QueryOutcome(session_state, max_messages, request.prompt,
                               resp, json_error_caught)
       IN  /\ session_state' = out.session_state
           /\ ret' = out.ret
           /\ ui' = ui \o out.ui \o Render(out.ret)
           /\ pc' = IF out.ret.kind = "raise" /\ ~MainCatches(out.ret.exc)
                    THEN "crashed" ELSE "idle"
    /\ response' = resp
    /\ op' = Op("query_deepseek", <<request.prompt, request.system_prompt,
                                     request.payload["messages"]>>)
    /\ request' = NoRequest
    /\ UNCHANGED <<max_messages, before>>

PostRaises ==
    \E e \in {"ConnectionError", "Timeout"} :
        Respond(Response(e, 0, FALSE, EmptyDict), TRUE)

PostReturns ==
    \/ \E s \in Statuses \ {200}, i \in {1, Len(Bodies)} :
          Respond(Response("ok", s, TRUE, Bodies[i]), TRUE)
    \/ \E i \in 1..Len(Bodies) : Respond(Response("ok", 200, TRUE, Bodies[i]), TRUE)
    \/ \E caught \in BOOLEAN : Respond(Response("ok", 200, FALSE, EmptyDict), caught)

Next ==
    \/ \E role \in Roles, content \in Contents : AddMessage(role, content)
    \/ \E p \in SystemPrompts : GetContext(p)
    \/ ClearMemory
    \/ Rerun
    \/ \E u \in UserInputs, i \in 1..Len(FileLists), p \in SystemPrompts,
          m \in Models, t \in Temperatures : Submit(u, FileLists[i], p, m, t)
    \/ PostRaises
    \/ PostReturns

Spec == Init /\ [][Next]_vars

\* query_deepseek used as a function: called directly, with any temperature.
NextQuery ==
    \/ \E u \in UserInputs, p \in SystemPrompts, m \in Models,
          t \in QueryTemperatures : Query(u, p, m, t)
    \/ PostRaises
    \/ PostReturns
    \/ ClearMemory

SpecQuery == Init /\ [][NextQuery]_vars

\* Memory changed only by turns of query_deepseek and by clear_memory.
NextTurns ==
    \/ \E p \in SystemPrompts : GetContext(p)
    \/ ClearMemory
    \/ Rerun
    \/ \E u \in UserInputs, i \in 1..Len(FileLists), p \in SystemPrompts,
          m \in Models, t \in Temperatures : Submit(u, FileLists[i], p, m, t)
    \/ PostRaises
    \/ PostReturns

SpecTurns == Init /\ [][NextTurns]_vars

\* requests.post is a blocking call of the single script thread: it returns a
\* response or raises, and the turn then runs to its end.
SpecLive == Init /\ [][Next]_vars /\ WF_vars(PostRaises \/ PostReturns)

\* process_uploaded_files used as a function, on every list of files: the
\* session starts with the files uploaded and the default ChatMemory.
InitIngest ==
    /\ session_state = initialize_session([DEESEEK_API_KEY |-> "key", logged_in |-> TRUE])
    /\ max_messages = MAX_CONTEXT_MESSAGES
    /\ pc = "idle"
    /\ request \in {[kind |-> "files", files |-> files] : files \in FileSequences}
    /\ response = NoResponse
    /\ op = Op("construct", <<>>)
    /\ ret = None
    /\ ui = <<>>
    /\ before = session_state

NextIngest == Ingest

SpecIngest == InitIngest /\ [][NextIngest]_vars

-----------------------------------------------------------------------------
(* Properties *)

Min(a, b) == IF a < b THEN a ELSE b

\* The last n entries of s (all of s when it has fewer than n), n >= 0.
LastEntries(s, n) == SubSeq(s, Len(s) - Min(Len(s), n) + 1, Len(s))

\* C1: after every operation the context log (full_history) holds at most
\* max_messages entries.
C1_ContextLogBounded == Len(full_history) <= max_messages

\* C1 witness: an append has just evicted: the display log is longer than the
\* bound and the context log is exactly at the bound.
C1_Witness ==
    /\ op.name = "add_message"
    /\ max_messages > 0
    /\ Len(before["full_history"]) = max_messages
    /\ Len(messages) > max_messages
    /\ Len(full_history) = max_messages

\* C2: an append (add_message) extends the display log (messages) by exactly
\* the appended message, whatever the context log evicts: the display log keeps
\* every message appended, in order, and grows by one per append.
C2_DisplayLogKeepsEverything ==
    op.name = "add_message" =>
        /\ messages = Append(before["messages"], Message(op.args[1], op.args[2]))
        /\ Len(messages) = Len(before["messages"]) + 1

\* C2 witness: an append after which the display log is full while the context
\* log has been trimmed to fewer entries.
C2_Witness ==
    /\ op.name = "add_message"
    /\ Len(messages) = MaxDisplay
    /\ Len(full_history) = max_messages
    /\ Len(full_history) < Len(messages)

\* C3: the context log is exactly the most recent min(n, max_messages) entries
\* of the display log, in the display log's order (FIFO eviction).
C3_ContextIsNewestSuffix ==
    /\ Len(full_history) = Min(Len(messages), max_messages)
    /\ full_history = LastEntries(messages, max_messages)

\* C3 witness: messages were evicted and the two retained ones differ, so their
\* order is observable.
C3_Witness ==
    /\ op.name = "add_message"
    /\ max_messages >= 2
    /\ Len(messages) > max_messages
    /\ Len(full_history) = max_messages
    /\ full_history[1] # full_history[2]
    /\ messages[1] # messages[Len(messages)]

\* The number of system messages in a sequence of messages.
CountSystem(seq) == Cardinality({i \in 1..Len(seq) : seq[i].role = "system"})

\* C4 as stated: get_context(p) returns the system message with content p
\* first, contains exactly one system message, and continues with the last
\* max_messages entries of the context log.
C4_ExactlyOneSystemMessage ==
    op.name = "get_context" =>
        LET c == ret.value
        IN  /\ Len(c) >= 1
            /\ c[1] = Message("system", op.args[1])
            /\ CountSystem(c) = 1
            /\ Tail(c) = LastEntries(full_history, max_messages)

\* C4 amended: get_context(p) returns the system message with content p first,
\* followed by the last max_messages entries of the context log in order; the
\* system messages it contains are that first one and the system-role messages
\* held in the context log, so it contains exactly one when the context log
\* holds none.
C4_SystemFirstThenContext ==
    op.name = "get_context" =>
        LET c == ret.value
        IN  /\ Len(c) >= 1
            /\ c[1] = Message("system", op.args[1])
            /\ Tail(c) = LastEntries(full_history, max_messages)
            /\ CountSystem(c) = 1 + CountSystem(full_history)
            /\ (CountSystem(full_history) = 0 => CountSystem(c) = 1)

\* C4 witness: get_context on a trimmed context log that holds a system-role
\* message appended through add_message.
C4_Witness ==
    /\ op.name = "get_context"
    /\ max_messages > 0
    /\ Len(messages) > max_messages
    /\ CountSystem(full_history) > 0
    /\ Len(ret.value) = max_messages + 1

\* C5: clear_memory leaves both logs empty; get_context(p) right after a clear
\* returns exactly the system message; a clear right after a clear leaves the
\* session as the first one left it.
C5_ClearResets ==
    [][ /\ (op'.name = "clear_memory" => messages' = <<>> /\ full_history' = <<>>)
        /\ (op.name = "clear_memory" /\ op'.name = "get_context"
               => ret' = Value(<<Message("system", op'.args[1])>>))
        /\ (op.name = "clear_memory" /\ op'.name = "clear_memory"
               => session_state' = session_state) ]_vars

\* C5 witness: a clear of a memory whose two logs both held messages.
C5_Witness ==
    /\ op.name = "clear_memory"
    /\ before["messages"] # <<>>
    /\ before["full_history"] # <<>>
    /\ messages = <<>>
    /\ full_history = <<>>

\* C6: a call of get_context changes neither log nor max_messages, and building
\* the request from its result plus the user turn (the submit step) changes
\* neither log.
C6_GetContextReadOnly ==
    [][ /\ (op'.name = "get_context"
               => session_state' = session_state /\ max_messages' = max_messages)
        /\ (op'.name = "submit"
               => /\ messages' = messages
                  /\ full_history' = full_history
                  /\ max_messages' = max_messages
                  /\ Len(request'.payload["messages"]) = Len(full_history') + 2) ]_vars

\* C6 witness: get_context has returned the context of a non-empty log and the
\* session is as it was before the call.
C6_Witness ==
    /\ op.name = "get_context"
    /\ full_history # <<>>
    /\ Len(ret.value) = Len(full_history) + 1
    /\ session_state = before

\* Whether a parsed body holds choices[0].message.content, and that content.
HasContent(d) ==
    /\ "choices" \in DOMAIN d
    /\ Len(d["choices"]) > 0
    /\ "message" \in DOMAIN d["choices"][1]
    /\ "content" \in DOMAIN d["choices"][1]["message"]

ContentOf(d) == IF HasContent(d) THEN d["choices"][1]["message"]["content"] ELSE ""

\* The last operation is a resolved turn whose request got an HTTP response.
TurnGotResponse == op.name = "query_deepseek" /\ response.transport = "ok"

\* C7: after a turn answered with status 200 and non-empty content c for
\* prompt q, the display log is the log before the turn followed by {user, q}
\* and then {assistant, c}, the context log is the same two appends trimmed to
\* max_messages, and the committed user message is the last message sent.
C7_TurnCommitsUserThenAssistant ==
    (TurnGotResponse /\ response.status = 200 /\ response.json_ok
        /\ ContentOf(response.data) # "") =>
        LET q == op.args[1]
            c == ContentOf(response.data)
            sent == op.args[3]
            turn == <<Message("user", q), Message("assistant", c)>>
        IN  /\ messages = before["messages"] \o turn
            /\ full_history = LastEntries(before["full_history"] \o turn, max_messages)
            /\ sent[Len(sent)] = Message("user", q)
            /\ messages[Len(messages) - 1] = sent[Len(sent)]

\* C7 witness: a successful turn with an attachment in the prompt, on a memory
\* that already held messages.
C7_Witness ==
    /\ TurnGotResponse /\ response.status = 200 /\ response.json_ok
    /\ ContentOf(response.data) = "Hi"
    /\ op.args[1] # "q"
    /\ before["messages"] # <<>>
    /\ max_messages >= 2
    /\ Len(messages) = Len(before["messages"]) + 2

\* C8 as stated: a 2xx response whose extracted content is empty (the content
\* field empty or missing) leaves both logs as they were before the turn.
C8_EmptyContentLeavesMemory ==
    (TurnGotResponse /\ response.status \in 200..299 /\ response.json_ok
        /\ ContentOf(response.data) = "") =>
        /\ messages = before["messages"]
        /\ full_history = before["full_history"]

\* C9: a turn whose request fails at the transport level (requests.post raises,
\* or the status is not 2xx) makes query_deepseek return None, without raising,
\* and leaves the session's logs as they were before the turn.
C9_TransportFailureLeavesMemory ==
    (op.name = "query_deepseek"
        /\ (response.transport # "ok" \/ response.status \notin 200..299)) =>
        /\ ret = None
        /\ session_state = before

\* C9 witness: a timed-out request on a memory that already held messages.
C9_Witness ==
    /\ op.name = "query_deepseek"
    /\ response.transport = "Timeout"
    /\ before["messages"] # <<>>
    /\ before["full_history"] # <<>>
    /\ ret = None

\* C10 as stated: a status-200 body that lacks part of choices[0].message.content
\* never makes query_deepseek raise.
C10_MissingStructureNeverRaises ==
    (TurnGotResponse /\ response.status = 200 /\ response.json_ok
        /\ ~HasContent(response.data)) =>
        ret.kind # "raise"

\* C11: the messages of the request in flight are the system message, the
\* last max_messages entries of the context log, and one final user message
\* whose content is the user text u alone when the attachment text a is empty
\* and u, a newline and a otherwise; so there are at most max_messages + 2 of
\* them and the current turn is added once, at the end.
C11_PayloadIsContextPlusTurn ==
    op.name = "submit" =>
        LET u == op.args[1]
            a == FileContext(op.args[2])
            turn == Message("user", IF a = "" THEN u ELSE u \o "\n" \o a)
            sent == request.payload["messages"]
        IN  /\ sent = <<Message("system", request.system_prompt)>>
                      \o LastEntries(full_history, max_messages) \o <<turn>>
            /\ Len(sent) <= max_messages + 2
            /\ sent[1].role = "system"
            /\ sent[Len(sent)] = turn
            /\ SubSeq(sent, 2, Len(sent) - 1) = full_history

\* C11 witness: a request with attachment text built over a context log that
\* is full, so the payload has max_messages + 2 messages.
C11_Witness ==
    /\ op.name = "submit"
    /\ FileContext(op.args[2]) # ""
    /\ max_messages > 0
    /\ Len(full_history) = max_messages
    /\ Len(request.payload["messages"]) = max_messages + 2

\* C11 witness for the other branch: files were uploaded but none yielded text,
\* so the prompt is the user text alone.
C11_WitnessNoText ==
    /\ op.name = "submit"
    /\ op.args[2] # <<>>
    /\ FileContext(op.args[2]) = ""
    /\ request.prompt = op.args[1]

\* C12 as stated: whatever temperature query_deepseek is called with, the
\* temperature of a request that is sent lies in [0, 1] (0..100 hundredths).
C12_SentTemperatureInRange ==
    pc = "waiting" =>
        /\ request.payload["temperature"] >= 0
        /\ request.payload["temperature"] <= 100

\* Whether a file is processed without an exception: it can be opened and,
\* for a PDF, no page's extract_text() raises.
Succeeds(f) ==
    /\ f.opens
    /\ f.type = "application/pdf" => \A i \in 1..Len(f.pages) : f.pages[i].extract # "raise"

\* The text extracted from a file: the decoded bytes of a plain file, the
\* pages' texts joined by single spaces for a PDF, where a page that yields no
\* text (or whose extraction fails) counts as empty text.
TextOf(f) ==
    IF f.type = "application/pdf"
    THEN Join(" ", [i \in 1..Len(f.pages) |->
                       IF f.pages[i].extract = "text" THEN f.pages[i].text ELSE ""])
    ELSE Decode(f.bytes)

KindPrefix(f) == IF f.type = "application/pdf" THEN "PDF_CONTENT:" ELSE "FILE_CONTENT:"

\* C13: process_uploaded_files returns (it does not raise) the snippets of
\* exactly the files that are processed without an exception, in input order,
\* joined by newlines; each failed file gives one warning and no snippet; the
\* result is the empty string when there is no file or every file fails.
C13_FailedFilesAreSkipped ==
    op.name = "process_uploaded_files" =>
        LET files == op.args[1]
            ok == SelectSeq(files, Succeeds)
        IN  /\ ret.kind = "value"
            /\ ret.value = Join("\n", [i \in 1..Len(ok) |-> ProcessFile(ok[i]).value])
            /\ Len(ui) = Len(files) - Len(ok)
            /\ (Len(ok) = 0 => ret.value = "")
            /\ (Len(ok) = 1 => ret.value = ProcessFile(ok[1]).value)

\* C13 witness: three files, the middle one fails, and the result holds the
\* snippets of the first and the third.
C13_Witness ==
    /\ op.name = "process_uploaded_files"
    /\ Len(op.args[1]) = 3
    /\ Succeeds(op.args[1][1]) /\ ~Succeeds(op.args[1][2]) /\ Succeeds(op.args[1][3])
    /\ op.args[1][1] # op.args[1][3]
    /\ ret.value = ProcessFile(op.args[1][1]).value \o "\n" \o ProcessFile(op.args[1][3]).value
    /\ Len(ui) = 1

\* The snippet C14 describes for a file with extracted text t.
SnippetOf(f) ==
    LET t == TextOf(f)
    IN  KindPrefix(f) \o f.name \o ": "
        \o SubSeq(t, 1, Min(Len(t), MAX_FILE_CONTENT)) \o "..."

\* C14: the result is made of one snippet per successfully read file, each the
\* kind prefix, the name, ": ", the first min(len(t), MAX_FILE_CONTENT)
\* characters of the extracted text t, and "..." whether or not t was cut; a
\* snippet is never longer than its prefix, name and marker plus
\* MAX_FILE_CONTENT; a.txt holding hello gives FILE_CONTENT:a.txt: hello...
C14_SnippetFormat ==
    op.name = "process_uploaded_files" =>
        LET files == op.args[1]
            ok == SelectSeq(files, Succeeds)
        IN  /\ ret.value = Join("\n", [i \in 1..Len(ok) |-> SnippetOf(ok[i])])
            /\ \A i \in 1..Len(ok) :
                  Len(ProcessFile(ok[i]).value)
                      <= Len(KindPrefix(ok[i])) + Len(ok[i].name) + 2 + MAX_FILE_CONTENT + 3
            /\ (files = <<File("text/plain", "a.txt", TRUE, <<>>, <<"hello">>)>>
                  => ret.value = "FILE_CONTENT:a.txt: hello...")

\* C14 witness: a single file whose text is longer than MAX_FILE_CONTENT and
\* whose snippet holds exactly MAX_FILE_CONTENT characters of it.
C14_Witness ==
    /\ op.name = "process_uploaded_files"
    /\ Len(op.args[1]) = 1
    /\ Succeeds(op.args[1][1])
    /\ Len(TextOf(op.args[1][1])) > MAX_FILE_CONTENT
    /\ ret.value = "FILE_CONTENT:l.txt: " \o X1000 \o "..."

\* C15 as stated: every file that can be opened yields a snippet; in a PDF a
\* page whose extraction returns nothing or fails contributes empty text and
\* the pages' texts are joined by single spaces.
C15_BadPageKeepsFile ==
    op.name = "process_uploaded_files" =>
        LET files == op.args[1]
            opened == SelectSeq(files, LAMBDA f : f.opens)
        IN  ret.value = Join("\n", [i \in 1..Len(opened) |-> SnippetOf(opened[i])])

\* C16: a request is in flight exactly while a turn waits for requests.post; a
\* turn is submitted only when none is in flight; while one is in flight the
\* only step is its resolution, which leaves the session idle whatever the
\* outcome; and every turn in flight is eventually resolved.
C16_TurnsSerializedAndResolve ==
    /\ [](pc \in {"idle", "waiting"})
    /\ [](pc = "waiting" <=> request.kind = "request")
    /\ [][op'.name = "submit" => pc = "idle" /\ pc' = "waiting"]_vars
    /\ [][pc = "waiting" => op'.name = "query_deepseek" /\ pc' = "idle"]_vars
    /\ ((pc = "waiting") ~> (pc = "idle"))

\* C16 witness: a turn in which query_deepseek raised an exception that is not
\* a RequestException has resolved, and the session is idle again.
C16_Witness ==
    /\ op.name = "query_deepseek"
    /\ ret.kind = "raise"
    /\ ret.exc = "IndexError"
    /\ ui = <<"st.error:Communication error">>
    /\ pc = "idle"

\* C17: with max_messages = 0 the context log holds no entry, get_context
\* returns the system message alone, and add_message still appends every
\* message to the display log.
C17_ZeroCapacityContext ==
    max_messages = 0 =>
        /\ full_history = <<>>
        /\ op.name = "get_context"
              => ret = Value(<<Message("system", op.args[1])>>)
        /\ op.name = "add_message"
              => messages = Append(before["messages"],
                                   Message(op.args[1], op.args[2]))

\* C17 witness: with max_messages = 0 and several messages in the display log,
\* get_context has returned a single message.
C17_Witness ==
    /\ max_messages = 0
    /\ op.name = "get_context"
    /\ Len(messages) >= 2
    /\ Len(ret.value) = 1

\* C18 as stated: a turn answered with any status in 200..299 and non-empty
\* first-choice content returns the parsed body and commits the user message
\* and then the assistant message, as for status 200.
C18_Every2xxIsSuccess ==
    (TurnGotResponse /\ response.status \in 200..299 /\ response.json_ok
        /\ ContentOf(response.data) # "") =>
        /\ ret = Value(response.data)
        /\ messages = before["messages"]
                        \o <<Message("user", op.args[1]),
                             Message("assistant", ContentOf(response.data))>>

\* C19: constructing ChatMemory over a session that already holds logs changes
\* nothing in the session, and neither log ever becomes shorter except by
\* clear_memory.
C19_ConstructionKeepsLogs ==
    /\ op.name = "construct" => session_state = before
    /\ Len(messages) < Len(before["messages"]) => op.name = "clear_memory"
    /\ Len(full_history) < Len(before["full_history"]) => op.name = "clear_memory"

\* C19 witness: ChatMemory has been constructed over non-empty logs, which are
\* still there.
C19_Witness ==
    /\ op.name = "construct"
    /\ Len(messages) >= 2
    /\ full_history # <<>>
    /\ messages = before["messages"]
    /\ full_history = before["full_history"]

\* Roles of a log alternate and are user or assistant only.
Alternates(log) ==
    /\ \A i \in 1..Len(log) : log[i].role \in {"user", "assistant"}
    /\ \A i \in 1..(Len(log) - 1) : log[i].role # log[i + 1].role

\* C20: when memory changes only by turns and clear_memory, between turns the
\* display log is a sequence of user, assistant pairs, the context log
\* alternates user and assistant and ends with an assistant message, neither
\* holds a system message, and for an even max_messages the context log has
\* even length and starts with a user message, as does the context sent next.
C20_LogsAlternateInPairs ==
    pc = "idle" =>
        /\ Len(messages) % 2 = 0
        /\ \A i \in 1..Len(messages) :
              messages[i].role = IF i % 2 = 1 THEN "user" ELSE "assistant"
        /\ Alternates(full_history)
        /\ full_history # <<>> => full_history[Len(full_history)].role = "assistant"
        /\ max_messages % 2 = 0 =>
              /\ Len(full_history) % 2 = 0
              /\ full_history # <<>> => full_history[1].role = "user"
              /\ LET context == get_context(session_state, max_messages, "expert")
                 IN  Len(context) > 1 => context[2].role = "user"

\* C20 witness: with max_messages = 2, a second turn has been committed and the
\* context log holds that turn alone, its user message first.
C20_Witness ==
    /\ pc = "idle"
    /\ op.name = "query_deepseek"
    /\ max_messages = 2
    /\ Len(messages) = 4
    /\ Len(full_history) = 2
    /\ full_history[1].role = "user"

====
